---------------------------- MODULE Spec2Model ----------------------------
(* Model of the variant normaliser of vcf-lib (src/src/record.rs):        *)
(* normalize (validation, trailing trim, leading trim with the position   *)
(* adjustment) and variant_type.                                          *)
(*                                                                        *)
(* A string is a sequence of characters; a character is named by a        *)
(* one-element TLA+ string.  str::len() is the length in UTF-8 bytes, so  *)
(* every character carries its encoded width.  A u64 is four 16-bit       *)
(* limbs, least significant first, so that the full 64-bit range and its  *)
(* overflow are represented exactly.                                      *)
EXTENDS Integers, Sequences, FiniteSets, TLC

VARIABLES
    arg_position,   \* the position passed to normalize
    arg_reference,  \* the reference passed to normalize
    arg_alternate,  \* the alternate passed to normalize
    pc,             \* where the caller is
    local_r,        \* normalize's r, the trailing-trimmed reference
    local_a,        \* normalize's a, the trailing-trimmed alternate
    result,         \* what normalize(arg_position, arg_reference, arg_alternate) gave
    vt,             \* what variant_type gave
    result2         \* what normalize gave on its own output

vars ==
    <<arg_position, arg_reference, arg_alternate, pc, local_r, local_a, result, vt,
      result2>>

-----------------------------------------------------------------------------
(* Bounds and input domains *)

\* longest reference / alternate string explored, in characters
MaxLen == 3

\* the character class of REGEX_ALLELES
Alphabet ==
    {"A", "C", "G", "T", "U", "R", "Y", "K", "M", "S", "W", "B", "D", "H", "V", "N"}

\* a two-byte character (U+00E9), outside the alphabet
NonAscii == "U+00E9"

\* characters the inputs are built from: two of the alphabet, one outside
Symbols == {"A", "C", NonAscii}

Strings == UNION {[1..k -> Symbols] : k \in 0..MaxLen}

-----------------------------------------------------------------------------
(* u64 arithmetic *)

LimbBase == 65536

U64Max == <<LimbBase - 1, LimbBase - 1, LimbBase - 1, LimbBase - 1>>

\* the u64 with value n, for n < LimbBase
U64Of(n) == <<n, 0, 0, 0>>

\* p + n for a u64 p and 0 <= n < LimbBase: the 64-bit sum and the carry out
U64Add(p, n) ==
    LET s1 == p[1] + n
        s2 == p[2] + (s1 \div LimbBase)
        s3 == p[3] + (s2 \div LimbBase)
        s4 == p[4] + (s3 \div LimbBase)
    IN  [value |-> <<s1 % LimbBase, s2 % LimbBase, s3 % LimbBase, s4 % LimbBase>>,
         overflow |-> (s4 \div LimbBase) > 0]

\* p >= q on u64
U64Geq(p, q) ==
    \/ p[4] > q[4]
    \/ p[4] = q[4] /\ p[3] > q[3]
    \/ p[4] = q[4] /\ p[3] = q[3] /\ p[2] > q[2]
    \/ p[4] = q[4] /\ p[3] = q[3] /\ p[2] = q[2] /\ p[1] >= q[1]

\* positions explored: an ordinary one, one whose low limb carries, and the
\* two largest values of the type
Positions ==
    {U64Of(1000), U64Of(LimbBase - 1),
     <<LimbBase - 2, LimbBase - 1, LimbBase - 1, LimbBase - 1>>, U64Max}

-----------------------------------------------------------------------------
(* Strings *)

\* encoded width of a character in bytes
Width(c) == IF c = NonAscii THEN 2 ELSE 1

RECURSIVE len(_)
\* str::len(): length in bytes
len(s) == IF s = <<>> THEN 0 ELSE Width(Head(s)) + len(Tail(s))

\* &s[from..to] for byte offsets; on strings of one-byte characters (all that
\* pass validation) byte offsets are character offsets
Slice(s, from, to) == SubSeq(s, from + 1, to)

\* s.get(0..1): the first byte as a string when it is a whole character
Get01(s) ==
    IF s # <<>> /\ Width(s[1]) = 1 THEN <<"Some", <<s[1]>>>> ELSE <<"None", <<>>>>

\* s.chars().rev()
Rev(s) == [i \in 1..Len(s) |-> s[Len(s) + 1 - i]]

\* REGEX_ALLELES.is_match(s): \A[ACGTURYKMSWBDHVN]+\z
is_match(s) == s # <<>> /\ \A i \in DOMAIN s : s[i] \in Alphabet

-----------------------------------------------------------------------------
(* Results *)

NoString == <<>>

Ok(p, rr, aa) ==
    [kind |-> "Ok", error |-> "none", payload |-> NoString,
     position |-> p, reference |-> rr, alternate |-> aa]

Err(e, s) ==
    [kind |-> "Err", error |-> e, payload |-> s,
     position |-> U64Of(0), reference |-> NoString, alternate |-> NoString]

\* the call aborted (arithmetic overflow with overflow checks on)
Panic ==
    [kind |-> "Panic", error |-> "none", payload |-> NoString,
     position |-> U64Of(0), reference |-> NoString, alternate |-> NoString]

Pending ==
    [kind |-> "Pending", error |-> "none", payload |-> NoString,
     position |-> U64Of(0), reference |-> NoString, alternate |-> NoString]

-----------------------------------------------------------------------------
(* src/src/record.rs *)

\* count_shared that stops after the first shared item
count_shared_at_most_one(itr_r, itr_a) ==
    IF itr_r # <<>> /\ itr_a # <<>> /\ Head(itr_r) = Head(itr_a) THEN 1 ELSE 0

RECURSIVE count_shared(_, _)
\* the number of leading items on which the two iterators agree
count_shared(itr_r, itr_a) ==
    IF itr_r # <<>> /\ itr_a # <<>> /\ Head(itr_r) = Head(itr_a)
    THEN 1 + count_shared(Tail(itr_r), Tail(itr_a))
    ELSE 0

\* validate with the symbol check of the reference moved before the emptiness
\* check of the alternate
validate_symbols_first(reference, alternate) ==
    IF len(reference) = 0 THEN Err("RefBasesEmptyError", NoString)
    ELSE IF ~is_match(reference) THEN Err("RefBasesInvalidSymbolError", reference)
    ELSE IF len(alternate) = 0 THEN Err("AltBasesEmptyError", NoString)
    ELSE IF ~is_match(alternate) THEN Err("AltBasesInvalidSymbolError", alternate)
    ELSE Pending

\* the checks normalize makes before it trims, in their order: the first
\* failing one is the error returned; Pending when all pass
validate(reference, alternate) ==
    IF len(reference) = 0 THEN Err("RefBasesEmptyError", NoString)
    ELSE IF len(alternate) = 0 THEN Err("AltBasesEmptyError", NoString)
    ELSE IF ~is_match(reference) THEN Err("RefBasesInvalidSymbolError", reference)
    ELSE IF ~is_match(alternate) THEN Err("AltBasesInvalidSymbolError", alternate)
    ELSE Pending

\* trim_trailing_shared_bases without `if p1 == 0 || p2 == 0`
trim_trailing_no_keep(reference, alternate) ==
    LET i == count_shared(Rev(reference), Rev(alternate))
    IN  <<Slice(reference, 0, len(reference) - i),
          Slice(alternate, 0, len(alternate) - i)>>

trim_trailing_shared_bases(reference, alternate) ==
    LET i == count_shared(Rev(reference), Rev(alternate))
        p1 == len(reference) - i
        p2 == len(alternate) - i
        keep == p1 = 0 \/ p2 = 0
    IN  <<Slice(reference, 0, IF keep THEN p1 + 1 ELSE p1),
          Slice(alternate, 0, IF keep THEN p2 + 1 ELSE p2)>>

\* trim_leading_shared_bases without `i -= 1`
trim_leading_no_step_back(position, reference, alternate, overflow_checks) ==
    LET i == count_shared(reference, alternate)
        sum == U64Add(position, i)
    IN  IF sum.overflow /\ overflow_checks THEN Panic
        ELSE Ok(sum.value, Slice(reference, i, len(reference)),
                Slice(alternate, i, len(alternate)))

\* overflow_checks is the build's setting: with it `position + i as u64`
\* panics on overflow, without it the sum wraps.  `i -= 1` at i = 0 panics
\* with it and leaves usize::MAX without it, which no slice accepts.
trim_leading_shared_bases(position, reference, alternate, overflow_checks) ==
    LET shared == count_shared(reference, alternate)
        back == shared = len(reference) \/ shared = len(alternate)
        i == IF back THEN shared - 1 ELSE shared
        sum == U64Add(position, i)
    IN  IF i < 0 THEN Panic
        ELSE IF sum.overflow /\ overflow_checks THEN Panic
        ELSE Ok(sum.value, Slice(reference, i, len(reference)),
                Slice(alternate, i, len(alternate)))

normalize(position, reference, alternate, overflow_checks) ==
    LET v == validate(reference, alternate)
        t == trim_trailing_shared_bases(reference, alternate)
    IN  IF v.kind = "Err" THEN v
        ELSE trim_leading_shared_bases(position, t[1], t[2], overflow_checks)

\* variant_type without the first-symbol comparison of its third and fourth arms
variant_type_no_anchor_check(r, a) ==
    IF len(r) = 1 /\ len(a) = 1 /\ a # r THEN "SNV"
    ELSE IF len(r) = len(a) /\ a # r THEN "MNV"
    ELSE IF len(r) = 1 /\ len(a) > 1 THEN "Insertion"
    ELSE IF len(a) = 1 /\ len(r) > 1 THEN "Deletion"
    ELSE IF len(r) # len(a) THEN "Indel"
    ELSE "None"

\* variant_type without its Indel arm
variant_type_no_indel(r, a) ==
    IF len(r) = 1 /\ len(a) = 1 /\ a # r THEN "SNV"
    ELSE IF len(r) = len(a) /\ a # r THEN "MNV"
    ELSE IF len(r) = 1 /\ len(a) > 1 /\ Get01(r) = Get01(a) THEN "Insertion"
    ELSE IF len(a) = 1 /\ len(r) > 1 /\ Get01(r) = Get01(a) THEN "Deletion"
    ELSE "None"

variant_type(r, a) ==
    IF len(r) = 1 /\ len(a) = 1 /\ a # r THEN "SNV"
    ELSE IF len(r) = len(a) /\ a # r THEN "MNV"
    ELSE IF len(r) = 1 /\ len(a) > 1 /\ Get01(r) = Get01(a) THEN "Insertion"
    ELSE IF len(a) = 1 /\ len(r) > 1 /\ Get01(r) = Get01(a) THEN "Deletion"
    ELSE IF len(r) # len(a) THEN "Indel"
    ELSE "None"

-----------------------------------------------------------------------------
(* A caller: normalize in its steps, then variant_type on what it returned, *)
(* or normalize again on what it returned; or variant_type on the raw pair. *)

Init ==
    /\ arg_position \in Positions
    /\ arg_reference \in Strings
    /\ arg_alternate \in Strings
    /\ pc = "start"
    /\ local_r = NoString
    /\ local_a = NoString
    /\ result = Pending
    /\ vt = "unset"
    /\ result2 = Pending

\* record.rs lines 13-27
Validate ==
    /\ pc = "start"
    /\ LET v == validate(arg_reference, arg_alternate)
       IN  IF v.kind = "Err"
           THEN result' = v /\ pc' = "returned"
           ELSE result' = result /\ pc' = "validated"
    /\ UNCHANGED <<arg_position, arg_reference, arg_alternate, local_r, local_a, vt,
                   result2>>

\* record.rs line 29
TrimTrailing ==
    /\ pc = "validated"
    /\ LET t == trim_trailing_shared_bases(arg_reference, arg_alternate)
       IN  local_r' = t[1] /\ local_a' = t[2]
    /\ pc' = "trailing_trimmed"
    /\ UNCHANGED <<arg_position, arg_reference, arg_alternate, result, vt, result2>>

\* record.rs line 31
TrimLeading ==
    /\ pc = "trailing_trimmed"
    /\ \E overflow_checks \in BOOLEAN :
         result' = trim_leading_shared_bases(arg_position, local_r, local_a,
                                             overflow_checks)
    /\ pc' = "returned"
    /\ UNCHANGED <<arg_position, arg_reference, arg_alternate, local_r, local_a, vt,
                   result2>>

\* variant_type(r, a) on the pair normalize returned
Classify ==
    /\ pc = "returned"
    /\ result.kind = "Ok"
    /\ vt' = variant_type(result.reference, result.alternate)
    /\ pc' = "classified"
    /\ UNCHANGED <<arg_position, arg_reference, arg_alternate, local_r, local_a,
                   result, result2>>

\* normalize(p, r, a) on the triple normalize returned
Renormalize ==
    /\ pc = "returned"
    /\ result.kind = "Ok"
    /\ \E overflow_checks \in BOOLEAN :
         result2' = normalize(result.position, result.reference, result.alternate,
                              overflow_checks)
    /\ pc' = "renormalized"
    /\ UNCHANGED <<arg_position, arg_reference, arg_alternate, local_r, local_a,
                   result, vt>>

\* variant_type on the pair as given, which it does not require normalized
ClassifyInput ==
    /\ pc = "start"
    /\ vt' = variant_type(arg_reference, arg_alternate)
    /\ pc' = "input_classified"
    /\ UNCHANGED <<arg_position, arg_reference, arg_alternate, local_r, local_a,
                   result, result2>>

Next ==
    \/ Validate
    \/ TrimTrailing
    \/ TrimLeading
    \/ Classify
    \/ Renormalize
    \/ ClassifyInput

Spec == Init /\ [][Next]_vars

-----------------------------------------------------------------------------
(* What the claims speak of *)

\* non-empty and made of symbols of the alphabet only
AlphabetValid(s) == Len(s) >= 1 /\ \A i \in 1..Len(s) : s[i] \in Alphabet

ValidInput == AlphabetValid(arg_reference) /\ AlphabetValid(arg_alternate)

Last(s) == s[Len(s)]

\* the mathematical sum position + n fits a u64 and is the u64 q
IsSum(q, p, n) == ~U64Add(p, n).overflow /\ q = U64Add(p, n).value

\* longer is shorter with a non-empty run inserted after a non-empty prefix:
\* shorter = X \o Y and longer = X \o I \o Y, with k = Len(X) >= 1
AnchoredInsert(shorter, longer) ==
    /\ Len(longer) > Len(shorter)
    /\ \E k \in 1..Len(shorter) :
         /\ SubSeq(longer, 1, k) = SubSeq(shorter, 1, k)
         /\ SubSeq(longer, k + 1 + Len(longer) - Len(shorter), Len(longer))
              = SubSeq(shorter, k + 1, Len(shorter))

\* rr and aa are what is left of reference and alternate once the same k
\* leading and the same m trailing symbols, equal on both sides, are removed
SharedContextRemoved(reference, alternate, rr, aa, k) ==
    /\ k + Len(rr) <= Len(reference)
    /\ Len(reference) - Len(rr) = Len(alternate) - Len(aa)
    /\ SubSeq(reference, k + 1, k + Len(rr)) = rr
    /\ SubSeq(alternate, k + 1, k + Len(aa)) = aa
    /\ SubSeq(reference, 1, k) = SubSeq(alternate, 1, k)
    /\ SubSeq(reference, k + Len(rr) + 1, Len(reference))
         = SubSeq(alternate, k + Len(aa) + 1, Len(alternate))

-----------------------------------------------------------------------------
(* C1 *)

\* C1: for every non-empty, alphabet-valid reference and alternate, normalize
\* succeeds and neither allele is empty, after the trailing trim and in the
\* returned result.
C1_SucceedsNonEmpty ==
    ValidInput =>
      /\ pc = "trailing_trimmed" => local_r # NoString /\ local_a # NoString
      /\ pc = "returned" =>
           /\ result.kind = "Ok"
           /\ result.reference # NoString
           /\ result.alternate # NoString

-----------------------------------------------------------------------------
(* C2 *)

\* C2: normalize applied to its own output (p, r, a) succeeds and returns
\* exactly (p, r, a).
C2_Idempotent == pc = "renormalized" => result2 = result

C2_Witness ==
    /\ pc = "renormalized"
    /\ Len(local_r) < Len(arg_reference)
    /\ Len(result.reference) < Len(local_r)
    /\ result2 = result

-----------------------------------------------------------------------------
(* C3 *)

\* C3: for every valid pair and every u64 position, normalize returns a
\* position >= the input position; the addition never wraps or aborts.
C3_PositionNotDecreasing ==
    ValidInput /\ pc = "returned" =>
      result.kind = "Ok" /\ U64Geq(result.position, arg_position)

-----------------------------------------------------------------------------
(* C4 *)

\* C4 as stated: identical valid reference and alternate of length n give
\* single-character alleles and the position advanced by n - 1.
C4_IdenticalAdvancesByLenMinusOne ==
    ValidInput /\ arg_reference = arg_alternate /\ pc = "returned" =>
      /\ result.kind = "Ok"
      /\ Len(result.reference) = 1
      /\ Len(result.alternate) = 1
      /\ IsSum(result.position, arg_position, Len(arg_reference) - 1)

\* C4 as amended: identical valid reference and alternate of length n give
\* single-character alleles and the input position unchanged.
C4_IdenticalKeepsPosition ==
    ValidInput /\ arg_reference = arg_alternate /\ pc = "returned" =>
      /\ result.kind = "Ok"
      /\ Len(result.reference) = 1
      /\ Len(result.alternate) = 1
      /\ result.position = arg_position

C4_Witness ==
    /\ pc = "returned"
    /\ ValidInput
    /\ arg_reference = arg_alternate
    /\ Len(arg_reference) >= 2
    /\ result.kind = "Ok"

-----------------------------------------------------------------------------
(* C5 *)

HasInvalidSymbol(s) == \E i \in 1..Len(s) : s[i] \notin Alphabet

\* C5: normalize returns an error exactly when the reference or the alternate
\* is empty or has a symbol outside the alphabet; the kind is that of the
\* first failing check in the order empty reference, empty alternate, invalid
\* reference, invalid alternate; an invalid-symbol error carries the whole
\* offending string; a failing call has trimmed nothing, and trimming starts
\* on valid input only.
C5_ErrorsInOrder ==
    /\ pc = "returned" =>
         /\ result.kind = "Err" <=> ~ValidInput
         /\ result.kind = "Err" =>
              /\ local_r = NoString /\ local_a = NoString
              /\ result.reference = NoString /\ result.alternate = NoString
              /\ arg_reference = <<>> =>
                   result.error = "RefBasesEmptyError" /\ result.payload = NoString
              /\ arg_reference # <<>> /\ arg_alternate = <<>> =>
                   result.error = "AltBasesEmptyError" /\ result.payload = NoString
              /\ arg_reference # <<>> /\ arg_alternate # <<>>
                   /\ HasInvalidSymbol(arg_reference) =>
                   /\ result.error = "RefBasesInvalidSymbolError"
                   /\ result.payload = arg_reference
              /\ arg_reference # <<>> /\ arg_alternate # <<>>
                   /\ ~HasInvalidSymbol(arg_reference) =>
                   /\ result.error = "AltBasesInvalidSymbolError"
                   /\ result.payload = arg_alternate
    /\ pc \in {"validated", "trailing_trimmed"} => ValidInput

C5_Witness ==
    /\ pc = "returned"
    /\ HasInvalidSymbol(arg_reference)
    /\ arg_alternate = <<>>
    /\ result.error = "AltBasesEmptyError"

-----------------------------------------------------------------------------
(* C6 *)

\* the rules of the claim, in their order; lengths are str::len()
Rules(rr, aa) ==
    << <<len(rr) = 1 /\ len(aa) = 1 /\ rr # aa, "SNV">>,
       <<len(rr) = len(aa) /\ rr # aa, "MNV">>,
       <<len(rr) = 1 /\ len(aa) > len(rr) /\ rr[1] = aa[1], "Insertion">>,
       <<len(aa) = 1 /\ len(rr) > len(aa) /\ rr[1] = aa[1], "Deletion">>,
       <<len(rr) # len(aa), "Indel">>,
       <<TRUE, "None">> >>

FirstMatchingRule(rr, aa) ==
    LET k == CHOOSE k \in 1..6 :
               Rules(rr, aa)[k][1] /\ \A j \in 1..(k - 1) : ~Rules(rr, aa)[j][1]
    IN  Rules(rr, aa)[k][2]

Min(x, y) == IF x <= y THEN x ELSE y

\* C6: on every pair of non-empty strings variant_type gives the result of
\* the first matching rule; a length-mismatched pair whose shorter allele has
\* length 1 and another first symbol is Indel, and so is every
\* length-mismatched pair whose shorter allele is longer than 1.
C6_FirstMatchWins ==
    pc = "input_classified" /\ arg_reference # <<>> /\ arg_alternate # <<>> =>
      /\ vt = FirstMatchingRule(arg_reference, arg_alternate)
      /\ len(arg_reference) # len(arg_alternate)
           /\ Min(len(arg_reference), len(arg_alternate)) = 1
           /\ arg_reference[1] # arg_alternate[1] => vt = "Indel"
      /\ len(arg_reference) # len(arg_alternate)
           /\ Min(len(arg_reference), len(arg_alternate)) > 1 => vt = "Indel"

C6_Witness ==
    /\ pc = "input_classified"
    /\ len(arg_reference) = 1
    /\ len(arg_alternate) > 1
    /\ arg_reference[1] # arg_alternate[1]
    /\ vt = "Indel"

-----------------------------------------------------------------------------
(* C7 *)

\* what C7 says normalize returns for shorter = X+Y, longer = X+I+Y
AnchoredResult(shorter, longer, ret_shorter, ret_longer) ==
    /\ result.kind = "Ok"
    /\ Len(ret_shorter) = 1
    /\ Len(ret_longer) = Len(longer) - Len(shorter) + 1
    /\ ret_longer[1] = ret_shorter[1]

\* C7: for valid alleles X+Y and X+I+Y (X, I non-empty) normalize returns
\* the shorter allele as one symbol and the longer as Len(I) + 1 symbols
\* starting with that symbol, and variant_type of the returned pair is
\* Insertion when the alternate is the longer one, Deletion when the
\* reference is.
C7_AnchoredInsDel ==
    /\ ValidInput /\ AnchoredInsert(arg_reference, arg_alternate) =>
         /\ pc = "returned" =>
              AnchoredResult(arg_reference, arg_alternate,
                             result.reference, result.alternate)
         /\ pc = "classified" => vt = "Insertion"
    /\ ValidInput /\ AnchoredInsert(arg_alternate, arg_reference) =>
         /\ pc = "returned" =>
              AnchoredResult(arg_alternate, arg_reference,
                             result.alternate, result.reference)
         /\ pc = "classified" => vt = "Deletion"

-----------------------------------------------------------------------------
(* C8 *)

\* C8: when both returned alleles have length >= 2, their first symbols
\* differ and their last symbols differ.
C8_Minimal ==
    pc = "returned" /\ result.kind = "Ok"
      /\ Len(result.reference) >= 2 /\ Len(result.alternate) >= 2 =>
      /\ result.reference[1] # result.alternate[1]
      /\ Last(result.reference) # Last(result.alternate)

C8_Witness ==
    /\ pc = "returned"
    /\ result.kind = "Ok"
    /\ Len(result.reference) >= 2
    /\ Len(result.alternate) >= 2
    /\ Len(result.reference) < Len(arg_reference)

-----------------------------------------------------------------------------
(* C9 *)

\* C9: the result (p', r', a') of a valid input is the input with one shared
\* prefix P and one shared suffix S removed from both alleles, and
\* p' = position + Len(P).
C9_OnlySharedContextRemoved ==
    ValidInput /\ pc = "returned" /\ result.kind = "Ok" =>
      \E k \in 0..Len(arg_reference) :
        /\ SharedContextRemoved(arg_reference, arg_alternate,
                                result.reference, result.alternate, k)
        /\ IsSum(result.position, arg_position, k)

-----------------------------------------------------------------------------
(* C10 *)

\* C10: variant_type of the pair normalize returned is none exactly when the
\* input reference and alternate are identical; otherwise it is one of the
\* five types.
C10_NoneIffIdentical ==
    pc = "classified" =>
      /\ vt = "None" <=> arg_reference = arg_alternate
      /\ arg_reference # arg_alternate =>
           vt \in {"SNV", "MNV", "Insertion", "Deletion", "Indel"}

C10_Witness ==
    /\ pc = "classified"
    /\ arg_reference # arg_alternate
    /\ Len(arg_reference) >= 2
    /\ Len(result.reference) = 1
    /\ vt = "Indel"

=============================================================================
